---- MODULE Spec2Model ----
(***************************************************************************)
(* Model of servo's MediaSession DOM object                                *)
(* (components/script/dom/mediasession.rs).                                *)
(*                                                                         *)
(* Option<T> values are sequences of length at most one: <<>> is None and  *)
(* <<v>> is Some(v).  Finite<f64> values are modelled by small integers    *)
(* (the code only compares them with 0.0 and with each other, and the      *)
(* defaults 1.0 and 0.0 are the integers 1 and 0).                         *)
(***************************************************************************)
EXTENDS Integers, Sequences, FiniteSets, TLC

VARIABLES
    url,               \* window.get_url(): the page URL string
    metadata,          \* MediaSession.metadata: Option<EmbedderMediaMetadata>
    playback_state,    \* MediaSession.playback_state
    action_handlers,   \* MediaSession.action_handlers: HashMap action type -> handler,
                       \* as the result of get() for every key (None: no entry)
    handlers_borrowed, \* a shared borrow (Ref) of the action_handlers cell is alive
    media_instance,    \* MediaSession.media_instance: Option<media element>
    sent,              \* MediaSessionEvents sent to the constellation, in order
    pc,                \* "idle", "in_handler" (inside handler.Call__) or "panicked"
    ha,                \* observation of the most recent handle_action call
    pos_op,            \* observation of the most recent SetPositionState call
    last_set,          \* per action type, the handler argument of the most recent
                       \* SetActionHandler call (<<>> when none was given or no call was made)
    title_update,      \* observation of the most recent update_title call
    replaced           \* the value of media_instance that the most recent
                       \* register_media_instance call overwrote

vars == <<url, metadata, playback_state, action_handlers, handlers_borrowed,
          media_instance, sent, pc, ha, pos_op, last_set, title_update, replaced>>

---------------------------------------------------------------------------
(* Bounds of the model *)

\* Finite<f64> inputs range over -1 .. MaxVal
MaxVal == 1
\* at most MaxRegistered handlers are registered at a time
MaxRegistered == 2
\* at most MaxSent notifications are sent in one behaviour
MaxSent == 2

---------------------------------------------------------------------------
(* Values *)

None == <<>>
Some(v) == <<v>>

\* script_traits::MediaSessionActionType, as matched in handle_action
ActionTypes ==
    {"Play", "Pause", "SeekBackward", "SeekForward", "PreviousTrack",
     "NextTrack", "SkipAd", "Stop", "SeekTo"}

\* the WebIDL enum MediaSessionAction taken by SetActionHandler
MediaSessionActions ==
    {"play", "pause", "seekbackward", "seekforward", "previoustrack",
     "nexttrack", "skipad", "stop", "seekto"}

\* impl From<MediaSessionAction> for MediaSessionActionType
From(action) ==
    CASE action = "play" -> "Play"
      [] action = "pause" -> "Pause"
      [] action = "seekbackward" -> "SeekBackward"
      [] action = "seekforward" -> "SeekForward"
      [] action = "previoustrack" -> "PreviousTrack"
      [] action = "nexttrack" -> "NextTrack"
      [] action = "skipad" -> "SkipAd"
      [] action = "stop" -> "Stop"
      [] action = "seekto" -> "SeekTo"

\* MediaSessionPlaybackState
PlaybackStates == {"None", "Playing", "Paused"}

\* identities of the callbacks (Rc<MediaSessionActionHandler>) a page may register
Handlers == {"h1", "h2"}

\* the media elements that may register themselves
Instances == {"A", "B"}

\* the values a Finite<f64> input may take
Vals == (-1) .. MaxVal

OptVals == {None} \cup {Some(v) : v \in Vals}

\* MediaPositionState dictionaries
PositionStates == [duration : OptVals, position : OptVals, playbackRate : OptVals]

\* the errors HTMLMediaElement::SetPlaybackRate may return
InstanceErrors == {"NotSupported"}

\* EmbedderMediaMetadata::new(title)
NewMetadata(title) == [title |-> title, artist |-> "", album |-> ""]

---------------------------------------------------------------------------
(* Init: MediaSession::new_inherited *)

Init ==
    /\ url = "https://page.example/"
    /\ metadata = None
    /\ playback_state = "None"
    /\ action_handlers = [a \in ActionTypes |-> None]
    /\ handlers_borrowed = FALSE
    /\ media_instance = None
    /\ sent = << >>
    /\ pc = "idle"
    /\ ha = None
    /\ pos_op = None
    /\ last_set = [a \in ActionTypes |-> None]
    /\ title_update = None
    /\ replaced = None

---------------------------------------------------------------------------
(* SetPositionState: the pure parts *)

\* a call made on a media element: its name, the element, the argument and
\* what the call returned
Call(fn, inst, arg, ret) == [fn |-> fn, inst |-> inst, arg |-> arg, ret |-> ret]

IsEmptyDictionary(state) ==
    state.duration = None /\ state.position = None /\ state.playbackRate = None

\* the checks after the empty-dictionary test, in the order of the code:
\* the message of the first TypeError thrown, or "Pass"
PositionChecksReordered(state) ==
    IF state.duration = None
    THEN "duration is not present or its value is null"
    ELSE IF state.playbackRate # None /\ state.playbackRate[1] <= 0
    THEN "playbackRate is zero"
    ELSE IF state.duration # None /\ state.duration[1] < 0
    THEN "duration is negative"
    ELSE IF state.position # None /\ state.position[1] < 0
    THEN "position is negative"
    ELSE IF state.position # None /\ state.duration # None
            /\ state.position[1] > state.duration[1]
    THEN "position is greater than duration"
    ELSE "Pass"

\* faulty variant of PositionChecks: the position is not compared with the
\* duration
PositionChecksNoUpperBound(state) ==
    IF state.duration = None
    THEN "duration is not present or its value is null"
    ELSE IF state.duration # None /\ state.duration[1] < 0
    THEN "duration is negative"
    ELSE IF state.position # None /\ state.position[1] < 0
    THEN "position is negative"
    ELSE IF state.playbackRate # None /\ state.playbackRate[1] <= 0
    THEN "playbackRate is zero"
    ELSE "Pass"

PositionChecks(state) ==
    IF state.duration = None
    THEN "duration is not present or its value is null"
    ELSE IF state.duration # None /\ state.duration[1] < 0
    THEN "duration is negative"
    ELSE IF state.position # None /\ state.position[1] < 0
    THEN "position is negative"
    ELSE IF state.position # None /\ state.duration # None
            /\ state.position[1] > state.duration[1]
    THEN "position is greater than duration"
    ELSE IF state.playbackRate # None /\ state.playbackRate[1] <= 0
    THEN "playbackRate is zero"
    ELSE "Pass"

\* Option::unwrap_or
UnwrapOr(opt, default) == IF opt = None THEN default ELSE opt[1]

\* the empty dictionary: reset the bound element, return Ok(())
ClearPositionStateAndSeek(instance) ==
    [result |-> "Ok",
     calls  |-> IF instance = None THEN << >>
                ELSE << Call("reset", instance[1], None, "Ok"),
                        Call("SetCurrentTime", instance[1], Some(0), "Ok") >>]

ClearPositionState(instance) ==
    [result |-> "Ok",
     calls  |-> IF instance = None THEN << >>
                ELSE << Call("reset", instance[1], None, "Ok") >>]

\* faulty variants of UpdateInstance: the time set before the rate, and the
\* error of SetPlaybackRate dropped
UpdateInstanceTimeFirst(state, instance, rate_ret) ==
    IF instance = None
    THEN [result |-> "Ok", calls |-> << >>]
    ELSE LET rate == UnwrapOr(state.playbackRate, 1)
             time == UnwrapOr(state.position, 0)
             m    == instance[1]
         IN  [result |-> rate_ret,
              calls  |-> << Call("set_duration", m, Some(state.duration[1]), "Ok"),
                            Call("SetCurrentTime", m, Some(time), "Ok"),
                            Call("SetPlaybackRate", m, Some(rate), rate_ret) >>]

UpdateInstanceErrorDropped(state, instance, rate_ret) ==
    IF instance = None
    THEN [result |-> "Ok", calls |-> << >>]
    ELSE LET rate == UnwrapOr(state.playbackRate, 1)
             time == UnwrapOr(state.position, 0)
             m    == instance[1]
         IN  [result |-> "Ok",
              calls  |-> << Call("set_duration", m, Some(state.duration[1]), "Ok"),
                            Call("SetPlaybackRate", m, Some(rate), rate_ret),
                            Call("SetCurrentTime", m, Some(time), "Ok") >>]

\* "Update the position state": the calls on the bound element after the
\* checks passed.  rate_ret is what SetPlaybackRate returns when it is called;
\* the `?` returns its error at once.
UpdateInstance(state, instance, rate_ret) ==
    IF instance = None
    THEN [result |-> "Ok", calls |-> << >>]
    ELSE LET rate == UnwrapOr(state.playbackRate, 1)
             time == UnwrapOr(state.position, 0)
             m    == instance[1]
         IN  IF rate_ret # "Ok"
             THEN [result |-> rate_ret,
                   calls  |-> << Call("set_duration", m, Some(state.duration[1]), "Ok"),
                                 Call("SetPlaybackRate", m, Some(rate), rate_ret) >>]
             ELSE [result |-> "Ok",
                   calls  |-> << Call("set_duration", m, Some(state.duration[1]), "Ok"),
                                 Call("SetPlaybackRate", m, Some(rate), rate_ret),
                                 Call("SetCurrentTime", m, Some(time), "Ok") >>]

\* faulty variant of SetPositionStateOutcome: nothing is checked when no
\* element is bound
SetPositionStateOutcomeUnboundUnchecked(state, instance, rate_ret) ==
    IF instance = None
    THEN [result |-> "Ok", calls |-> << >>]
    ELSE IF IsEmptyDictionary(state)
    THEN ClearPositionState(instance)
    ELSE IF PositionChecks(state) # "Pass"
    THEN [result |-> PositionChecks(state), calls |-> << >>]
    ELSE UpdateInstance(state, instance, rate_ret)

\* the whole method: its result and the calls it made on the bound element
SetPositionStateOutcome(state, instance, rate_ret) ==
    IF IsEmptyDictionary(state)
    THEN ClearPositionState(instance)
    ELSE IF PositionChecks(state) # "Pass"
    THEN [result |-> PositionChecks(state), calls |-> << >>]
    ELSE UpdateInstance(state, instance, rate_ret)

---------------------------------------------------------------------------
(* handle_action: the pure parts *)

\* a call-out made by handle_action: a handler's Call__, or Play / Pause on
\* the media element
CallOut(fn, target) == [fn |-> fn, target |-> target]

\* self.action_handlers.borrow().get(&action)
Lookup(handlers, action) == handlers[action]

\* faulty variant of DefaultAction: Stop pauses the bound element
DefaultActionStopPauses(instance, action) ==
    IF instance = None
    THEN << >>
    ELSE CASE action = "Play" -> << CallOut("Play", instance[1]) >>
           [] action \in {"Pause", "Stop"} -> << CallOut("Pause", instance[1]) >>
           [] OTHER -> << >>

\* "Default action.": what handle_action calls on the bound element
DefaultAction(instance, action) ==
    IF instance = None
    THEN << >>
    ELSE CASE action = "Play" -> << CallOut("Play", instance[1]) >>
           [] action = "Pause" -> << CallOut("Pause", instance[1]) >>
           [] action = "SeekBackward" -> << >>
           [] action = "SeekForward" -> << >>
           [] action = "PreviousTrack" -> << >>
           [] action = "NextTrack" -> << >>
           [] action = "SkipAd" -> << >>
           [] action = "Stop" -> << >>
           [] action = "SeekTo" -> << >>

\* faulty variants of AfterHandler: no `return`, and the default action as a
\* fallback for a failed handler
AfterHandlerFallThrough(instance, action, ok) == DefaultAction(instance, action)

AfterHandlerFallBack(instance, action, ok) ==
    IF ok THEN << >> ELSE DefaultAction(instance, action)

\* what handle_action calls after the handler's Call__ came back (ok: it
\* returned Ok): the `return` leaves the method, whatever Call__ returned
AfterHandler(instance, action, ok) == << >>

\* a handler is looked up before the element: the faulty variant looks at
\* the element first
HandlerConsultedOnlyWhenBound(handlers, instance, action) ==
    instance # None /\ Lookup(handlers, action) # None

\* `if let Some(handler) = ...get(&action)`: the custom handler is taken
HandlerConsulted(handlers, instance, action) ==
    Lookup(handlers, action) # None

---------------------------------------------------------------------------
(* SetActionHandler: the pure parts *)

\* HashMap::insert and HashMap::remove
Insert(handlers, key, handler) == [handlers EXCEPT ![key] = Some(handler)]
Remove(handlers, key) == [handlers EXCEPT ![key] = None]

\* faulty variant: a removal that clears the whole map
UpdatedHandlersClearing(handlers, action, handler) ==
    IF handler # None
    THEN Insert(handlers, From(action), handler[1])
    ELSE [a \in DOMAIN handlers |-> None]

\* the map after SetActionHandler(action, handler)
UpdatedHandlers(handlers, action, handler) ==
    IF handler # None
    THEN Insert(handlers, From(action), handler[1])
    ELSE Remove(handlers, From(action))

Registered(handlers) == {a \in DOMAIN handlers : handlers[a] # None}

---------------------------------------------------------------------------
(* SetMetadata, update_title: the pure parts *)

\* faulty variants of StoredMetadata: an empty title stored as it is, and the
\* artist stored as the album
StoredMetadataNoFallback(m, page_url) ==
    IF m = None
    THEN NewMetadata(page_url)
    ELSE [title  |-> m[1].title,
          artist |-> m[1].artist,
          album  |-> m[1].album]

StoredMetadataArtistTwice(m, page_url) ==
    IF m = None
    THEN NewMetadata(page_url)
    ELSE [title  |-> IF m[1].title = "" THEN page_url ELSE m[1].title,
          artist |-> m[1].artist,
          album  |-> m[1].artist]

\* the EmbedderMediaMetadata SetMetadata stores for a MediaMetadata argument
StoredMetadata(m, page_url) ==
    IF m = None
    THEN NewMetadata(page_url)
    ELSE [title  |-> IF m[1].title = "" THEN page_url ELSE m[1].title,
          artist |-> m[1].artist,
          album  |-> m[1].album]

\* faulty variant of SetMetadataEvent: the event built from the title alone
SetMetadataEventTitleOnly(m) ==
    [event |-> "SetMetadata", metadata |-> NewMetadata(m.title)]

\* MediaSessionEvent::SetMetadata
SetMetadataEvent(m) == [event |-> "SetMetadata", metadata |-> m]

\* faulty variant of send_event: the newest event put first
send_eventNewestFirst(events, event) == << event >> \o events

\* send_event: the event goes to the constellation, after those sent before
send_event(events, event) == Append(events, event)

\* faulty variant of UpdatedTitle: any title given by the player replaces
\* the stored one
UpdatedTitleOverwriting(stored, title) ==
    IF stored # None
    THEN Some([stored[1] EXCEPT !.title = title])
    ELSE Some(NewMetadata(title))

\* update_title: the metadata to store and send, or None when the method
\* returns early because a title is already stored
UpdatedTitle(stored, title) ==
    IF stored # None
    THEN IF stored[1].title # ""
         THEN None
         ELSE Some([stored[1] EXCEPT !.title = title])
    ELSE Some(NewMetadata(title))

\* GetMetadata: the MediaMetadata built from the stored metadata
GetMetadata(stored) ==
    IF stored # None
    THEN Some([title  |-> stored[1].title,
               artist |-> stored[1].artist,
               album  |-> stored[1].album])
    ELSE None

---------------------------------------------------------------------------
(* SetPlaybackState, register_media_instance: the pure parts *)

\* faulty variant of StoredPlaybackState: a session that is playing or
\* paused cannot go back to None
StoredPlaybackStateNoWayBack(current, state) ==
    IF current # "None" /\ state = "None" THEN current ELSE state

\* *self.playback_state.borrow_mut() = state
StoredPlaybackState(current, state) == state

\* PlaybackState(): the getter
PlaybackState(current) == current

\* faulty variant of BoundInstance: the first element stays bound
BoundInstanceFirstStays(current, instance) ==
    IF current # None THEN current ELSE Some(instance)

\* self.media_instance.set(Some(media_instance))
BoundInstance(current, instance) == Some(instance)

---------------------------------------------------------------------------
(* The operations.  A page's script calls the MediaSessionMethods at top   *)
(* level (pc = "idle") or from inside an action handler (pc =              *)
(* "in_handler"); the embedder and the media element call the others at    *)
(* top level.  ha observes the most recent top-level operation when it is  *)
(* a handle_action; pos_op observes the most recent SetPositionState call  *)
(* until the top-level operation it belongs to is over.                    *)

Callable == pc \in {"idle", "in_handler"}

\* what a call leaves in the observation `obs` of another operation
Kept(obs) == IF pc = "idle" THEN None ELSE obs

register_media_instance(instance) ==
    /\ pc = "idle"
    /\ media_instance' = BoundInstance(media_instance, instance)
    /\ replaced' = media_instance
    /\ ha' = None
    /\ pos_op' = None
    /\ title_update' = None
    /\ UNCHANGED <<url, metadata, playback_state, action_handlers,
                   handlers_borrowed, sent, pc, last_set>>

\* handle_action up to the handler's Call__ (a custom handler is registered)
\* or to its end (the default action)
handle_action(action) ==
    /\ pc = "idle"
    /\ pos_op' = None
    /\ IF HandlerConsulted(action_handlers, media_instance, action)
       THEN /\ handlers_borrowed' = TRUE
            /\ pc' = "in_handler"
            /\ ha' = Some([action |-> action,
                           calls  |-> << CallOut("Call__", Lookup(action_handlers, action)[1]) >>,
                           status |-> "in_handler",
                           warned |-> FALSE])
       ELSE /\ ha' = Some([action |-> action,
                           calls  |-> DefaultAction(media_instance, action),
                           status |-> "returned",
                           warned |-> FALSE])
            /\ UNCHANGED <<pc, handlers_borrowed>>
    /\ title_update' = None
    /\ UNCHANGED <<url, metadata, playback_state, action_handlers,
                   media_instance, sent, last_set, replaced>>

\* the handler's Call__ comes back (ok: with Ok) and handle_action returns:
\* an error is logged with warn!, the Ref of the map is dropped
handler_returns(ok) ==
    /\ pc = "in_handler"
    /\ pc' = "idle"
    /\ handlers_borrowed' = FALSE
    /\ ha' = Some([ha[1] EXCEPT
                     !.calls  = @ \o AfterHandler(media_instance, ha[1].action, ok),
                     !.status = "returned",
                     !.warned = ~ok])
    /\ pos_op' = None
    /\ UNCHANGED <<url, metadata, playback_state, action_handlers,
                   media_instance, sent, last_set, title_update, replaced>>

update_title(title) ==
    /\ pc = "idle"
    /\ ha' = None
    /\ pos_op' = None
    /\ title_update' = Some([title   |-> title,
                             applied |-> UpdatedTitle(metadata, title) # None])
    /\ IF UpdatedTitle(metadata, title) = None
       THEN UNCHANGED <<metadata, sent>>
       ELSE /\ Len(sent) < MaxSent
            /\ metadata' = UpdatedTitle(metadata, title)
            /\ sent' = send_event(sent, SetMetadataEvent(metadata'[1]))
    /\ UNCHANGED <<url, playback_state, action_handlers, handlers_borrowed,
                   media_instance, pc, last_set, replaced>>

SetMetadata(m) ==
    /\ Callable
    /\ Len(sent) < MaxSent
    /\ metadata' = Some(StoredMetadata(m, url))
    /\ sent' = send_event(sent, SetMetadataEvent(StoredMetadata(m, url)))
    /\ ha' = Kept(ha)
    /\ pos_op' = Kept(pos_op)
    /\ title_update' = Kept(title_update)
    /\ UNCHANGED <<url, playback_state, action_handlers, handlers_borrowed,
                   media_instance, pc, last_set, replaced>>

SetPlaybackState(state) ==
    /\ Callable
    /\ playback_state' = StoredPlaybackState(playback_state, state)
    /\ ha' = Kept(ha)
    /\ pos_op' = Kept(pos_op)
    /\ title_update' = Kept(title_update)
    /\ UNCHANGED <<url, metadata, action_handlers, handlers_borrowed,
                   media_instance, sent, pc, last_set, replaced>>

\* borrow_mut() panics while the Ref taken by handle_action is alive
SetActionHandler(action, handler) ==
    /\ Callable
    /\ Cardinality(Registered(action_handlers) \cup {From(action)}) <= MaxRegistered
    /\ last_set' = [last_set EXCEPT ![From(action)] = handler]
    /\ IF handlers_borrowed
       THEN /\ pc' = "panicked"
            /\ UNCHANGED action_handlers
       ELSE /\ action_handlers' = UpdatedHandlers(action_handlers, action, handler)
            /\ UNCHANGED pc
    /\ ha' = Kept(ha)
    /\ pos_op' = Kept(pos_op)
    /\ title_update' = Kept(title_update)
    /\ UNCHANGED <<url, metadata, playback_state, handlers_borrowed,
                   media_instance, sent, replaced>>

\* rate_ret: what the element's SetPlaybackRate returns if it is called
SetPositionState(state, rate_ret) ==
    /\ Callable
    /\ pos_op' = Some([state    |-> state,
                       instance |-> media_instance,
                       result   |-> SetPositionStateOutcome(state, media_instance, rate_ret).result,
                       calls    |-> SetPositionStateOutcome(state, media_instance, rate_ret).calls])
    /\ ha' = Kept(ha)
    /\ title_update' = Kept(title_update)
    /\ UNCHANGED <<url, metadata, playback_state, action_handlers,
                   handlers_borrowed, media_instance, sent, pc, last_set,
                   replaced>>

---------------------------------------------------------------------------
(* Specifications *)

OptHandlers(handlers) == {None} \cup {Some(h) : h \in handlers}

SetPlaybackRateReturns == {"Ok"} \cup InstanceErrors

\* every operation, with the inputs drawn from the given sets
NextOver(actions, handlers, instances, states, metadatas, titles, positions) ==
    \/ \E i \in instances : register_media_instance(i)
    \/ \E a \in actions : handle_action(From(a))
    \/ \E ok \in BOOLEAN : handler_returns(ok)
    \/ \E t \in titles : update_title(t)
    \/ \E m \in metadatas : SetMetadata(m)
    \/ \E s \in states : SetPlaybackState(s)
    \/ \E a \in actions, h \in OptHandlers(handlers) : SetActionHandler(a, h)
    \/ \E p \in positions, r \in SetPlaybackRateReturns : SetPositionState(p, r)

\* the empty dictionary and one that passes the checks
FewPositionStates ==
    {[duration |-> None, position |-> None, playbackRate |-> None],
     [duration |-> Some(1), position |-> None, playbackRate |-> None]}

\* The whole session, with few inputs of each operation: two action types,
\* one handler, two media elements, every playback state.
Next ==
    NextOver({"play", "seekto"}, {"h1"}, Instances, PlaybackStates, {None},
             {"track"}, FewPositionStates)

Spec == Init /\ [][Next]_vars

\* Action dispatch: the operations that read or write the handler map and
\* the bound element, over every action type, two handlers and two media
\* elements.
NextDispatch ==
    \/ \E i \in Instances : register_media_instance(i)
    \/ \E a \in MediaSessionActions : handle_action(From(a))
    \/ \E ok \in BOOLEAN : handler_returns(ok)
    \/ \E a \in MediaSessionActions, h \in OptHandlers(Handlers) :
          SetActionHandler(a, h)

SpecDispatch == Init /\ [][NextDispatch]_vars

\* Position state: SetPositionState over every MediaPositionState dictionary
\* with values in Vals and every return of SetPlaybackRate, with and without
\* a bound element, in sessions whose other fields have been set.
NextPosition ==
    \/ \E i \in Instances : register_media_instance(i)
    \/ SetMetadata(None)
    \/ SetPlaybackState("Paused")
    \/ SetActionHandler("play", Some("h1"))
    \/ \E p \in PositionStates, r \in SetPlaybackRateReturns : SetPositionState(p, r)

SpecPosition == Init /\ [][NextPosition]_vars

\* Metadata: SetMetadata and update_title over pages with and without a URL
\* string, MediaMetadata arguments with each field empty or not, and player
\* titles empty or not.
PageUrls == {"", "https://page.example/"}

MediaMetadatas ==
    {None} \cup {Some([title |-> t, artist |-> a, album |-> b]) :
                    t \in {"", "song"}, a \in {"", "artist"}, b \in {"", "album"}}

PlayerTitles == {"", "track"}

InitMetadata ==
    /\ url \in PageUrls
    /\ metadata = None
    /\ playback_state = "None"
    /\ action_handlers = [a \in ActionTypes |-> None]
    /\ handlers_borrowed = FALSE
    /\ media_instance = None
    /\ sent = << >>
    /\ pc = "idle"
    /\ ha = None
    /\ pos_op = None
    /\ last_set = [a \in ActionTypes |-> None]
    /\ title_update = None
    /\ replaced = None

NextMetadata ==
    \/ \E t \in PlayerTitles : update_title(t)
    \/ \E m \in MediaMetadatas : SetMetadata(m)

SpecMetadata == InitMetadata /\ [][NextMetadata]_vars

---------------------------------------------------------------------------
(* The media element, as the session sees it: the effect of the calls the  *)
(* session makes on its duration, playback rate and current time.          *)

ElementStates ==
    [duration : 0 .. 1, playback_rate : {1}, current_time : {0}]

ElementAfterCall(element, call) ==
    CASE call.fn = "set_duration" -> [element EXCEPT !.duration = call.arg[1]]
      [] call.fn = "SetPlaybackRate" ->
            IF call.ret = "Ok"
            THEN [element EXCEPT !.playback_rate = call.arg[1]]
            ELSE element
      [] call.fn = "SetCurrentTime" -> [element EXCEPT !.current_time = call.arg[1]]
      [] call.fn = "reset" -> [element EXCEPT !.current_time = 0]

RECURSIVE ElementAfter(_, _)
ElementAfter(element, calls) ==
    IF calls = << >>
    THEN element
    ELSE ElementAfter(ElementAfterCall(element, Head(calls)), Tail(calls))

---------------------------------------------------------------------------
(* Properties *)

Fns(calls) == {calls[i].fn : i \in DOMAIN calls}

\* the one call-out of a handle_action that invokes handler h
OnlyHandler(h) == << CallOut("Call__", h) >>

\* C1: whenever handle_action(a) runs with a custom handler H registered for
\* a, its call-outs are exactly one invocation of H, before and after H
\* comes back: Play and Pause of the bound element are not called.
C1_CustomHandlerOnly ==
    (ha # None /\ action_handlers[ha[1].action] # None)
        => ha[1].calls = OnlyHandler(action_handlers[ha[1].action][1])

\* C1 happens: handle_action(Play) has returned after invoking the handler
\* registered for Play while an element is bound.
C1_Witness ==
    /\ ha # None
    /\ ha[1].action = "Play"
    /\ ha[1].status = "returned"
    /\ action_handlers["Play"] # None
    /\ media_instance # None
    /\ pc = "idle"

\* C2: when the handler invoked by handle_action failed (the failure was
\* logged), handle_action has returned to its caller and its only call-out
\* was the handler: no Play or Pause of the bound element as a fallback.
C2_HandlerFailureSwallowed ==
    (ha # None /\ ha[1].warned)
        => /\ pc = "idle"
           /\ ha[1].status = "returned"
           /\ Len(ha[1].calls) = 1
           /\ Fns(ha[1].calls) = {"Call__"}

\* C2 happens: the handler registered for Pause failed while an element is
\* bound.
C2_Witness ==
    /\ ha # None
    /\ ha[1].warned
    /\ ha[1].action = "Pause"
    /\ media_instance # None

\* the default behaviour of the action table: Play and Pause of the bound
\* element, nothing for the other action types or without an element
ExpectedDefault(action, instance) ==
    IF instance # None /\ action \in {"Play", "Pause"}
    THEN << CallOut(action, instance[1]) >>
    ELSE << >>

\* C3: as long as no call has faulted, the handler map is, for every action
\* type, what the most recent SetActionHandler call for that type gave
\* (a removal of an absent key and calls for other types leave an entry as
\* it is); handle_action(a) invokes the handler that call gave, or performs
\* the default behaviour when it gave none or was never made; and a call
\* made outside a handler never faults.
C3_MostRecentHandlerDecides ==
    /\ pc # "panicked" =>
          /\ \A a \in ActionTypes : action_handlers[a] = last_set[a]
          /\ ha # None =>
                ha[1].calls =
                    IF last_set[ha[1].action] # None
                    THEN OnlyHandler(last_set[ha[1].action][1])
                    ELSE ExpectedDefault(ha[1].action, media_instance)
    /\ pc = "panicked" => handlers_borrowed

\* C3 happens: handle_action(Play) called Play of the bound element, no
\* handler being set for Play, while a handler of another action type is
\* registered.
C3_Witness ==
    /\ ha # None
    /\ ha[1].action = "Play"
    /\ media_instance # None
    /\ ha[1].calls = << CallOut("Play", media_instance[1]) >>
    /\ last_set["Play"] = None
    /\ \E b \in ActionTypes : action_handlers[b] # None

\* C4 as claimed: without a bound element handle_action calls nothing, not
\* even a registered handler.
C4_NoInstanceNoCallOut ==
    (ha # None /\ media_instance = None) => ha[1].calls = << >>

\* C4 amended: without a bound element handle_action calls nothing on any
\* element; it invokes the handler registered for the action, once, and
\* calls nothing at all when none is registered.
C4_NoInstanceHandlerStillInvoked ==
    (ha # None /\ media_instance = None)
        => ha[1].calls =
              IF action_handlers[ha[1].action] # None
              THEN OnlyHandler(action_handlers[ha[1].action][1])
              ELSE << >>

\* C4 happens: a handler was invoked and came back with no element bound.
C4_Witness ==
    /\ ha # None
    /\ media_instance = None
    /\ ha[1].status = "returned"
    /\ ha[1].calls # << >>

\* the ordered pipeline of the position-state checks: each check's failing
\* condition and its error
Pipeline(state) ==
    << [fails |-> state.duration = None,
        error |-> "duration is not present or its value is null"],
       [fails |-> state.duration # None /\ state.duration[1] < 0,
        error |-> "duration is negative"],
       [fails |-> state.position # None /\ state.position[1] < 0,
        error |-> "position is negative"],
       [fails |-> state.position # None /\ state.duration # None
                    /\ state.position[1] > state.duration[1],
        error |-> "position is greater than duration"],
       [fails |-> state.playbackRate # None /\ state.playbackRate[1] <= 0,
        error |-> "playbackRate is zero"] >>

ValidationErrors == {Pipeline(s)[i].error : s \in PositionStates, i \in 1 .. 5}

FailingChecks(state) == {i \in 1 .. 5 : Pipeline(state)[i].fails}

FirstFailing(state) ==
    CHOOSE i \in FailingChecks(state) : \A j \in FailingChecks(state) : i <= j

\* C5: the result of SetPositionState is Ok for the empty dictionary, else
\* the error of the first failing check of the pipeline, else (every check
\* passes) no validation error.  A negative duration gives "duration is
\* negative" whatever the other fields are, and "playbackRate is zero" is
\* returned only when the duration and position checks pass.
C5_FirstFailingCheckDecides ==
    pos_op # None =>
        LET state  == pos_op[1].state
            result == pos_op[1].result
        IN  /\ IF IsEmptyDictionary(state)
               THEN result = "Ok"
               ELSE IF FailingChecks(state) # {}
               THEN result = Pipeline(state)[FirstFailing(state)].error
               ELSE result \notin ValidationErrors
            /\ (state.duration # None /\ state.duration[1] < 0)
                  => result = "duration is negative"
            /\ result = "playbackRate is zero"
                  => FailingChecks(state) \cap (1 .. 4) = {}

\* C5 happens: a dictionary that fails the playbackRate check and also has a
\* position above its duration was given, and one with a negative duration
\* and a zero playbackRate.
C5_Witness ==
    /\ pos_op # None
    /\ pos_op[1].state.duration = Some(0)
    /\ pos_op[1].state.position = Some(1)
    /\ pos_op[1].state.playbackRate = Some(0)
    /\ pos_op[1].result = "position is greater than duration"

\* C6: SetPositionState of the empty dictionary returns Ok; with a bound
\* element its only call on it is reset, without one it calls nothing; and
\* the metadata, the playback state, the handler map, the bound element and
\* the events sent are as before.
C6_EmptyDictionaryOnlyResets ==
    [][\A r \in SetPlaybackRateReturns :
          SetPositionState([duration |-> None, position |-> None,
                            playbackRate |-> None], r)
            => /\ pos_op'[1].result = "Ok"
               /\ pos_op'[1].calls =
                     IF media_instance # None
                     THEN << Call("reset", media_instance[1], None, "Ok") >>
                     ELSE << >>
               /\ UNCHANGED <<metadata, playback_state, action_handlers,
                              media_instance, sent, url>>]_vars

\* C6 happens: the empty dictionary was given to a session with a bound
\* element, metadata, a playback state and a handler.
C6_Witness ==
    /\ pos_op # None
    /\ IsEmptyDictionary(pos_op[1].state)
    /\ pos_op[1].instance # None
    /\ pos_op[1].calls # << >>
    /\ metadata # None
    /\ playback_state = "Paused"
    /\ action_handlers["Play"] # None

\* a dictionary that satisfies the position-state invariant
Valid(state) ==
    /\ state.duration # None
    /\ state.duration[1] >= 0
    /\ state.position # None =>
          (0 <= state.position[1] /\ state.position[1] <= state.duration[1])
    /\ state.playbackRate # None => state.playbackRate[1] > 0

\* C7: for a valid dictionary and a bound element, SetPositionState calls
\* set_duration(duration) and then SetPlaybackRate(playbackRate, or 1 when
\* absent), and when SetPlaybackRate accepts, then SetCurrentTime(position,
\* or 0 when absent) and nothing else, and returns Ok.
C7_UpdateOrder ==
    (pos_op # None /\ Valid(pos_op[1].state) /\ pos_op[1].instance # None) =>
        LET state == pos_op[1].state
            calls == pos_op[1].calls
            m     == pos_op[1].instance[1]
            rate  == IF state.playbackRate = None THEN 1 ELSE state.playbackRate[1]
            time  == IF state.position = None THEN 0 ELSE state.position[1]
        IN  /\ Len(calls) >= 2
            /\ calls[1] = Call("set_duration", m, state.duration, "Ok")
            /\ calls[2].fn = "SetPlaybackRate"
            /\ calls[2].inst = m
            /\ calls[2].arg = Some(rate)
            /\ calls[2].ret = "Ok" =>
                  /\ calls = << calls[1], calls[2],
                                Call("SetCurrentTime", m, Some(time), "Ok") >>
                  /\ pos_op[1].result = "Ok"

\* C7 happens: a dictionary with only a duration was accepted by a bound
\* element, the rate and the position taking their defaults.
C7_Witness ==
    /\ pos_op # None
    /\ pos_op[1].instance # None
    /\ pos_op[1].state = [duration |-> Some(1), position |-> None,
                          playbackRate |-> None]
    /\ pos_op[1].result = "Ok"
    /\ Len(pos_op[1].calls) = 3

\* C8 as claimed: when SetPositionState returns an error, the bound
\* element's duration, playback rate and current time are what they were
\* before the call.
C8_ErrorLeavesElementUntouched ==
    (pos_op # None /\ pos_op[1].result # "Ok") =>
        \A e \in ElementStates : ElementAfter(e, pos_op[1].calls) = e

\* C9: when SetPlaybackRate rejects the rate, SetPositionState returns the
\* error SetPlaybackRate returned and does not call SetCurrentTime.
C9_RateErrorPropagates ==
    pos_op # None =>
        \A i \in DOMAIN pos_op[1].calls :
            (pos_op[1].calls[i].fn = "SetPlaybackRate"
                /\ pos_op[1].calls[i].ret # "Ok")
            => /\ pos_op[1].result = pos_op[1].calls[i].ret
               /\ "SetCurrentTime" \notin Fns(pos_op[1].calls)

\* C9 happens: a valid dictionary with a rate was given and the bound
\* element rejected the rate.
C9_Witness ==
    /\ pos_op # None
    /\ Valid(pos_op[1].state)
    /\ pos_op[1].state.playbackRate # None
    /\ pos_op[1].instance # None
    /\ pos_op[1].result \in InstanceErrors

\* C10 as claimed: a handler that calls back into the session never faults.
C10_ReentrantCallsNeverFault ==
    pc # "panicked"

\* the metadata the claims expect SetMetadata to store
ExpectedStored(m, page_url) ==
    IF m = None
    THEN [title |-> page_url, artist |-> "", album |-> ""]
    ELSE [title  |-> IF m[1].title = "" THEN page_url ELSE m[1].title,
          artist |-> m[1].artist,
          album  |-> m[1].album]

\* C11: every SetMetadata call, whatever is stored before it, stores the
\* page URL as title with empty artist and album for no argument, else the
\* argument's artist, album and title (the page URL for an empty title);
\* it sends one SetMetadata event with the stored value after those sent
\* before; and GetMetadata then returns the stored value.
C11_SetMetadataOverwrites ==
    [][\A m \in MediaMetadatas :
          SetMetadata(m)
            => /\ metadata' = Some(ExpectedStored(m, url))
               /\ sent' = Append(sent, [event    |-> "SetMetadata",
                                        metadata |-> ExpectedStored(m, url)])
               /\ GetMetadata(metadata') = Some(ExpectedStored(m, url))]_vars

\* C11 happens: a title set by update_title was overwritten by a SetMetadata
\* with an empty title, an artist and an album.
C11_Witness ==
    /\ Len(sent) = 2
    /\ sent[1].metadata = [title |-> "track", artist |-> "", album |-> ""]
    /\ url # ""
    /\ metadata = Some([title |-> url, artist |-> "artist", album |-> "album"])
    /\ sent[2].metadata = metadata[1]

HasTitle(stored) == stored # None /\ stored[1].title # ""

C13_EventsInCallOrder ==
    [][/\ \/ (sent' = sent /\ metadata' = metadata)
          \/ (metadata' # None
                /\ sent' = Append(sent, [event    |-> "SetMetadata",
                                         metadata |-> metadata'[1]]))
       /\ \A m \in MediaMetadatas : SetMetadata(m) => Len(sent') = Len(sent) + 1
       /\ \A t \in PlayerTitles :
             (update_title(t) /\ ~HasTitle(metadata))
                => Len(sent') = Len(sent) + 1]_vars

\* C13 happens: an update_title and then a SetMetadata that stored another
\* value each sent their event.
C13_Witness ==
    /\ Len(sent) = 2
    /\ sent[1].metadata.title = "track"
    /\ sent[2].metadata.title = "song"
    /\ metadata = Some(sent[2].metadata)

\* the result of the checks alone: Ok for the empty dictionary and for a
\* dictionary no check fails, else the error of the first failing check
ExpectedValidation(state) ==
    IF IsEmptyDictionary(state) \/ FailingChecks(state) = {}
    THEN "Ok"
    ELSE Pipeline(state)[FirstFailing(state)].error

\* the returns of the SetPlaybackRate calls among `calls` that were rejected
Rejections(calls) ==
    {calls[i].ret : i \in {j \in DOMAIN calls :
                              calls[j].fn = "SetPlaybackRate" /\ calls[j].ret # "Ok"}}

\* C14 as claimed: whatever is bound, SetPositionState returns for a
\* dictionary what it returns for it with no element bound.
C14_SameResultBoundOrNot ==
    pos_op # None =>
        \A r \in SetPlaybackRateReturns :
            pos_op[1].result
                = SetPositionStateOutcome(pos_op[1].state, None, r).result

\* C14 amended: with no element bound SetPositionState returns the result
\* of the checks and calls nothing; with an element bound it returns the
\* same result, except when the checks pass and the element's
\* SetPlaybackRate rejects the rate: then it returns that error, where the
\* unbound call returns Ok.
C14_SameValidationBoundOrNot ==
    pos_op # None =>
        LET state  == pos_op[1].state
            result == pos_op[1].result
            calls  == pos_op[1].calls
        IN  /\ pos_op[1].instance = None
                  => (result = ExpectedValidation(state) /\ calls = << >>)
            /\ pos_op[1].instance # None
                  => IF Rejections(calls) # {}
                     THEN /\ Rejections(calls) = {result}
                          /\ ExpectedValidation(state) = "Ok"
                     ELSE result = ExpectedValidation(state)

\* C14 happens: with no element bound a dictionary failed a check.
C14_Witness ==
    /\ pos_op # None
    /\ pos_op[1].instance = None
    /\ pos_op[1].state.position = Some(1)
    /\ pos_op[1].result = "position is greater than duration"

\* the arguments of the calls of `fn` among `calls`
ArgsOf(calls, fn) ==
    {calls[i].arg[1] : i \in {j \in DOMAIN calls : calls[j].fn = fn}}

\* C19: every value SetPositionState hands to the bound element is valid:
\* a duration that is not negative, a playback rate above zero, and a
\* current time from zero to the duration handed over by the same call.
C19_OnlyValidValuesReachElement ==
    pos_op # None =>
        LET calls == pos_op[1].calls
        IN  /\ \A d \in ArgsOf(calls, "set_duration") : d >= 0
            /\ \A r \in ArgsOf(calls, "SetPlaybackRate") : r > 0
            /\ \A t \in ArgsOf(calls, "SetCurrentTime") :
                  /\ t >= 0
                  /\ ArgsOf(calls, "set_duration") # {}
                  /\ \A d \in ArgsOf(calls, "set_duration") : t <= d

\* C19 happens: the element was handed a current time equal to the duration.
C19_Witness ==
    /\ pos_op # None
    /\ pos_op[1].instance # None
    /\ pos_op[1].state.playbackRate = Some(1)
    /\ ArgsOf(pos_op[1].calls, "set_duration") = {1}
    /\ ArgsOf(pos_op[1].calls, "SetPlaybackRate") = {1}
    /\ ArgsOf(pos_op[1].calls, "SetCurrentTime") = {1}

\* C15: the playback state starts as None; SetPlaybackState(s) makes the
\* getter return s for every s of {None, Playing, Paused} whatever the
\* state was; and a step that changes the playback state is a
\* SetPlaybackState: handle_action and its default Play and Pause, the
\* handler's return, SetMetadata, update_title, SetActionHandler,
\* SetPositionState and register_media_instance leave it as it is.
C15_PlaybackStateIsLastSet ==
    /\ PlaybackState(playback_state) = "None"
    /\ [][/\ \A s \in PlaybackStates :
                SetPlaybackState(s) => PlaybackState(playback_state') = s
          /\ playback_state' # playback_state
                => \E s \in PlaybackStates : SetPlaybackState(s)]_vars

\* C15 happens: the session was set to Paused, and the default Play of a
\* later handle_action left it Paused.
C15_Witness ==
    /\ PlaybackState(playback_state) = "Paused"
    /\ media_instance # None
    /\ ha # None
    /\ ha[1].status = "returned"
    /\ ha[1].calls = << CallOut("Play", media_instance[1]) >>

\* the action types whose match arm is empty
NoDefaultBehaviour ==
    {"SeekBackward", "SeekForward", "PreviousTrack", "NextTrack", "SkipAd",
     "Stop", "SeekTo"}

\* C16: handle_action of SeekBackward, SeekForward, PreviousTrack,
\* NextTrack, SkipAd, Stop or SeekTo with no handler registered for it
\* returns having called nothing, with or without a bound element, and
\* leaves the events sent, the metadata, the playback state, the handler
\* map and the bound element as they were.
C16_NoDefaultBehaviourIsNoOp ==
    [][\A a \in NoDefaultBehaviour :
          (handle_action(a) /\ Lookup(action_handlers, a) = None)
              => /\ ha'[1].action = a
                 /\ ha'[1].calls = << >>
                 /\ ha'[1].status = "returned"
                 /\ UNCHANGED <<sent, metadata, playback_state, action_handlers,
                                handlers_borrowed, media_instance, url, pc>>]_vars

\* C16 happens: handle_action(Stop) has returned with an element bound, no
\* handler for Stop and a handler for Pause.
C16_Witness ==
    /\ ha # None
    /\ ha[1].action = "Stop"
    /\ ha[1].status = "returned"
    /\ ha[1].calls = << >>
    /\ media_instance # None
    /\ action_handlers["Stop"] = None
    /\ action_handlers["Pause"] # None
    /\ pc = "idle"

\* the elements the observed handle_action and SetPositionState called
ElementsCalled(h, p) ==
    {h[1].calls[k].target :
        k \in {j \in DOMAIN h[1].calls : h[1].calls[j].fn \in {"Play", "Pause"}}}
    \cup {p[1].calls[k].inst : k \in DOMAIN p[1].calls}

\* C17: register_media_instance(i) leaves i as the one bound element
\* whatever was bound before, nothing else changes the bound element, and
\* the default Play and Pause of handle_action and the reset, set_duration,
\* SetPlaybackRate and SetCurrentTime of SetPositionState are called on the
\* element bound at the time, never on one that was replaced.
C17_LatestElementOnly ==
    [][/\ \A i \in Instances :
             register_media_instance(i) => media_instance' = Some(i)
       /\ media_instance' # media_instance
             => \E i \in Instances : register_media_instance(i)
       /\ LET h == IF ha' = None THEN Some([calls |-> << >>]) ELSE ha'
              p == IF pos_op' = None THEN Some([calls |-> << >>]) ELSE pos_op'
          IN  ElementsCalled(h, p) # {}
                 => /\ media_instance' # None
                    /\ ElementsCalled(h, p) = {media_instance'[1]}]_vars

\* C17 happens: element A was replaced by element B, and SetPositionState
\* made its three calls on B.
C17_Witness ==
    /\ replaced = Some("A")
    /\ media_instance = Some("B")
    /\ pos_op # None
    /\ Len(pos_op[1].calls) = 3
    /\ \A k \in 1 .. 3 : pos_op[1].calls[k].inst = "B"

C20_StoredIsLastSent ==
    /\ metadata = None <=> sent = << >>
    /\ metadata # None
          => sent[Len(sent)] = [event |-> "SetMetadata", metadata |-> metadata[1]]
    /\ (title_update # None /\ title_update[1].applied /\ Len(sent) = 1)
          => metadata = Some([title  |-> title_update[1].title,
                              artist |-> "", album |-> ""])

\* C20 happens: update_title("track") on a session without metadata stored
\* and sent the title with empty artist and album.
C20_Witness ==
    /\ title_update = Some([title |-> "track", applied |-> TRUE])
    /\ metadata = Some([title |-> "track", artist |-> "", album |-> ""])
    /\ sent = << [event |-> "SetMetadata", metadata |-> metadata[1]] >>

====
